---- MODULE Spec2Model ----
(***************************************************************************)
(* Example 03 - Gizmo With Render Targets (example_03_render_targets.c).   *)
(*                                                                         *)
(* main() is modelled as a sequential state machine with one action per    *)
(* call of the program.  Window coordinates are whole pixels, a Rectangle  *)
(* is a record [x, y, width, height], a Vector2 is a pair <<x, y>>.  All    *)
(* float values the program computes (480.0, 270.0, 1.0, 0.0) are exact,   *)
(* so the mouse scale is kept as a reduced fraction.                       *)
(***************************************************************************)
EXTENDS Integers, Sequences, FiniteSets, TLC

VARIABLES
    pc,             \* position of main()
    i,              \* the loop variable `int i`
    mouse,          \* windowing layer: raw pointer position (window pixels)
    shouldClose,    \* windowing layer: close request flag
    windowOpen,     \* the window exists
    mouseOffset,    \* windowing layer: additive mouse offset
    mouseScale,     \* windowing layer: multiplicative mouse scale, <<sx, sy>>
    crateTexture,   \* Texture crateTexture
    crateModel,     \* Model crateModel
    crateTransform, \* Transform crateTransform (the shared transform)
    view,           \* Viewport view[VIEWPORT_COUNT]
    boundTarget,    \* render target currently bound (0 = the window)
    camera3D,       \* camera of the active 3D mode, or NoCamera
    calls,          \* calls made since the last BeginDrawing, in order
    frameStart,     \* crateTransform when the current frame began
    drawn,          \* per viewport: world matrix its DrawModel used this frame
    seen,           \* per viewport: pointer position its gizmo call read
    blit,           \* per viewport: DrawTextureRec arguments of this frame
    released,       \* resources passed to an Unload/Close call, in order
    staleUse,       \* a render target was used after its release
    probe           \* result of the last per-pixel probe (pixel checks only)

vars == <<pc, i, mouse, shouldClose, windowOpen, mouseOffset, mouseScale,
          crateTexture, crateModel, crateTransform, view, boundTarget,
          camera3D, calls, frameStart, drawn, seen, blit, released,
          staleUse, probe>>

----------------------------------------------------------------------------
(* Constants of the program *)

SCREEN_WIDTH == 960
SCREEN_HEIGHT == 540
VIEWPORT_COUNT == 4

\* (float)SCREEN_WIDTH * 0.5f and (float)SCREEN_HEIGHT * 0.5f: exact halves
HALF_W == SCREEN_WIDTH \div 2
HALF_H == SCREEN_HEIGHT \div 2

BACK_COLORS == <<"BLACK", "PURPLE", "ORANGE", "RED">>

\* camera eye positions, in tenths of a unit
CAM_POSITIONS == << <<-55, 55, 20>>, <<55, 55, 20>>, <<-25, 25, 20>>, <<25, 25, 20>> >>

----------------------------------------------------------------------------
(* Bounds of the model *)

\* the gizmo drags the crate along the x axis to 0..MaxTranslate
MaxTranslate == 1

Viewports == 0 .. (VIEWPORT_COUNT - 1)

\* pointer positions the windowing layer may report: the corners and edges
\* of every viewport rectangle, interior points and points off the window
PointerSamples ==
    { <<-1, -1>>, <<0, 0>>, <<479, 269>>, <<480, 269>>, <<479, 270>>,
      <<480, 270>>, <<500, 300>>, <<959, 539>>, <<960, 539>>, <<959, 540>> }

Translations == { <<x, 0, 0>> : x \in 0 .. MaxTranslate }

----------------------------------------------------------------------------
(* The windowing / rendering layer, as the program uses it *)

\* no 3D mode is active
NoCamera ==
    [position |-> <<0, 0, 0>>, target |-> <<0, 0, 0>>, up |-> <<0, 0, 0>>,
     fovy |-> 0, projection |-> "none"]

\* framebuffer 0 is the window; a call about the window is recorded with -1
Window == 0

RECURSIVE GCD(_, _)
GCD(a, b) == IF b = 0 THEN a ELSE GCD(b, a % b)

\* the float quotient n / d (d > 0, n >= 0) as a reduced fraction
FloatDiv(n, d) == [num |-> n \div GCD(n, d), den |-> d \div GCD(n, d)]

One == FloatDiv(1, 1)
Zero == FloatDiv(0, 1)

\* v * f for a whole v and a fraction f
ScaleBy(v, f) == (v * f.num) \div f.den

\* GetMousePosition(): (raw position + offset) * scale
GetMousePosition ==
    << ScaleBy(mouse[1] + mouseOffset[1], mouseScale[1]),
       ScaleBy(mouse[2] + mouseOffset[2], mouseScale[2]) >>

\* CheckCollisionPointRec(point, rec): left/top edge inside, right/bottom out
CheckCollisionPointRec(point, rec) ==
    /\ point[1] >= rec.x
    /\ point[1] < rec.x + rec.width
    /\ point[2] >= rec.y
    /\ point[2] < rec.y + rec.height

\* LoadTexture(): a texture with id 0 when the file cannot be loaded
LoadTexture(ok) == [id |-> IF ok THEN 1 ELSE 0]

\* LoadModel(): falls back to a default mesh when the file cannot be loaded
LoadModel(ok) ==
    [mesh |-> IF ok THEN "crate" ELSE "default", texture |-> 0,
     transform |-> << >>]

\* LoadRenderTexture(width, height): all zero when no framebuffer is created
LoadRenderTexture(n, width, height, ok) ==
    IF ok THEN [id |-> n + 1, texture |-> [width |-> width, height |-> height]]
    ELSE [id |-> 0, texture |-> [width |-> 0, height |-> 0]]

----------------------------------------------------------------------------
(* The gizmo library: Transform and its world matrix *)

\* GizmoIdentity(): no translation, identity quaternion, unit scale
GizmoIdentity ==
    [translation |-> <<0, 0, 0>>, rotation |-> <<0, 0, 0, 1>>,
     scale |-> <<1, 1, 1>>]

\* matrices are <<m0, ..., m15>>
MatrixMultiply(left, right) ==
    [k \in 1 .. 16 |->
        LET r == (k - 1) \div 4
            c == (k - 1) % 4
        IN  left[4 * r + 1] * right[c + 1] + left[4 * r + 2] * right[c + 5]
            + left[4 * r + 3] * right[c + 9] + left[4 * r + 4] * right[c + 13]]

MatrixScale(s) ==
    << s[1], 0, 0, 0,   0, s[2], 0, 0,   0, 0, s[3], 0,   0, 0, 0, 1 >>

MatrixTranslate(t) ==
    << 1, 0, 0, 0,   0, 1, 0, 0,   0, 0, 1, 0,   t[1], t[2], t[3], 1 >>

QuaternionToMatrix(q) ==
    LET x == q[1]  y == q[2]  z == q[3]  w == q[4]
    IN  << 1 - 2 * (y * y + z * z), 2 * (x * y + w * z), 2 * (x * z - w * y), 0,
           2 * (x * y - w * z), 1 - 2 * (x * x + z * z), 2 * (y * z + w * x), 0,
           2 * (x * z + w * y), 2 * (y * z - w * x), 1 - 2 * (x * x + y * y), 0,
           0, 0, 0, 1 >>

\* GizmoToMatrix(transform): scale, then rotation, then translation
GizmoToMatrix(t) ==
    MatrixMultiply(MatrixMultiply(MatrixScale(t.scale),
                                  QuaternionToMatrix(t.rotation)),
                   MatrixTranslate(t.translation))

\* DrawGizmo3D reads the pointer through GetMousePosition()
GizmoPointer == GetMousePosition

\* DrawGizmo3D(GIZMO_TRANSLATE, &t) leaves t with any translation of the drag
GizmoResults(t) == { [t EXCEPT !.translation = tr] : tr \in Translations }

----------------------------------------------------------------------------
(* Local helpers of the program *)

CreateCamera(position, target) ==
    [position |-> position, target |-> target, up |-> <<0, 1, 0>>,
     fovy |-> 45, projection |-> "CAMERA_PERSPECTIVE"]

\* variant: column and row exchanged
ViewportArea_Transposed(n) ==
    LET col == n \div 2
        row == n % 2
    IN  [x |-> col * HALF_W, y |-> row * HALF_H,
         width |-> HALF_W, height |-> HALF_H]

\* view[n].area of the initialization loop
ViewportArea(n) ==
    LET col == n % 2
        row == n \div 2
    IN  [x |-> col * HALF_W, y |-> row * HALF_H,
         width |-> HALF_W, height |-> HALF_H]

\* one pass of the initialization loop for view[n]
MakeViewport(n, ok) ==
    [area |-> ViewportArea(n),
     clearColor |-> BACK_COLORS[n + 1],
     camera |-> CreateCamera(CAM_POSITIONS[n + 1], <<0, 0, 0>>),
     rt |-> LoadRenderTexture(n, HALF_W, HALF_H, ok)]

\* an element of view[] the loop has not written yet
NoViewport ==
    [area |-> [x |-> 0, y |-> 0, width |-> 0, height |-> 0],
     clearColor |-> "", camera |-> NoCamera,
     rt |-> [id |-> 0, texture |-> [width |-> 0, height |-> 0]]]

\* variant: the source rectangle has a positive height
SourceRec_Unflipped(n) ==
    [x |-> 0, y |-> 0, width |-> view[n].rt.texture.width,
     height |-> view[n].rt.texture.height]

\* the source rectangle of DrawTextureRec: the whole texture, negative height
SourceRec(n) ==
    [x |-> 0, y |-> 0, width |-> view[n].rt.texture.width,
     height |-> -view[n].rt.texture.height]

\* the position of DrawTextureRec: the origin of the viewport's rectangle
Position(n) == <<view[n].area.x, view[n].area.y>>

Nothing == [v \in Viewports |-> << >>]

\* append a call to the frame's record
Call(name, arg) == calls' = Append(calls, <<name, arg>>)

\* using render target n after UnloadRenderTexture was called on it
Stale(n) == \E k \in DOMAIN released : released[k] = <<"rt", n>>

----------------------------------------------------------------------------
(* Initialization *)

Init ==
    /\ pc = "InitWindow"
    /\ i = 0
    /\ mouse = <<0, 0>>
    /\ shouldClose = FALSE
    /\ windowOpen = FALSE
    /\ mouseOffset = <<0, 0>>
    /\ mouseScale = <<Zero, Zero>>
    /\ crateTexture = LoadTexture(FALSE)
    /\ crateModel = LoadModel(FALSE)
    /\ crateTransform = GizmoIdentity
    /\ view = [n \in Viewports |-> NoViewport]
    /\ boundTarget = Window
    /\ camera3D = NoCamera
    /\ calls = << >>
    /\ frameStart = GizmoIdentity
    /\ drawn = Nothing
    /\ seen = Nothing
    /\ blit = Nothing
    /\ released = << >>
    /\ staleUse = FALSE
    /\ probe = << >>

\* SetConfigFlags, InitWindow, SetTargetFPS: the window opens with the
\* pointer at its centre, mouse offset (0,0) and mouse scale (1,1)
AtInitWindow ==
    /\ pc = "InitWindow"
    /\ windowOpen' = TRUE
    /\ mouse' = <<SCREEN_WIDTH \div 2, SCREEN_HEIGHT \div 2>>
    /\ mouseOffset' = <<0, 0>>
    /\ mouseScale' = <<One, One>>
    /\ shouldClose' = FALSE
    /\ pc' = "LoadTexture"
    /\ UNCHANGED <<i, crateTexture, crateModel, crateTransform, view,
                   boundTarget, camera3D, calls, frameStart, drawn, seen,
                   blit, released, staleUse, probe>>

\* variant: a texture that failed to load ends the program
AtLoadTexture_Checked ==
    /\ pc = "LoadTexture"
    /\ \E ok \in BOOLEAN :
          /\ crateTexture' = LoadTexture(ok)
          /\ pc' = IF ok THEN "LoadModel" ELSE "done"
          /\ windowOpen' = ok
    /\ UNCHANGED <<i, mouse, shouldClose, mouseOffset, mouseScale,
                   crateModel, crateTransform, view, boundTarget, camera3D,
                   calls, frameStart, drawn, seen, blit, released, staleUse,
                   probe>>

\* LoadTexture, GenTextureMipmaps, SetTextureFilter: the result is not tested
AtLoadTexture ==
    /\ pc = "LoadTexture"
    /\ \E ok \in BOOLEAN : crateTexture' = LoadTexture(ok)
    /\ pc' = "LoadModel"
    /\ UNCHANGED <<i, mouse, shouldClose, windowOpen, mouseOffset, mouseScale,
                   crateModel, crateTransform, view, boundTarget, camera3D,
                   calls, frameStart, drawn, seen, blit, released, staleUse,
                   probe>>

\* LoadModel and the albedo texture assignment: the result is not tested
AtLoadModel ==
    /\ pc = "LoadModel"
    /\ \E ok \in BOOLEAN :
          crateModel' = [LoadModel(ok) EXCEPT !.texture = crateTexture.id]
    /\ pc' = "GizmoIdentity"
    /\ UNCHANGED <<i, mouse, shouldClose, windowOpen, mouseOffset, mouseScale,
                   crateTexture, crateTransform, view, boundTarget, camera3D,
                   calls, frameStart, drawn, seen, blit, released, staleUse,
                   probe>>

\* Transform crateTransform = GizmoIdentity(); then the loop starts at i = 0
AtGizmoIdentity ==
    /\ pc = "GizmoIdentity"
    /\ crateTransform' = GizmoIdentity
    /\ i' = 0
    /\ pc' = "InitViewport"
    /\ UNCHANGED <<mouse, shouldClose, windowOpen, mouseOffset, mouseScale,
                   crateTexture, crateModel, view, boundTarget, camera3D,
                   calls, frameStart, drawn, seen, blit, released, staleUse,
                   probe>>

\* one pass of for (i = 0; i < VIEWPORT_COUNT; ++i) { view[i] = ... }
AtInitViewport ==
    /\ pc = "InitViewport"
    /\ i < VIEWPORT_COUNT
    /\ \E ok \in BOOLEAN : view' = [view EXCEPT ![i] = MakeViewport(i, ok)]
    /\ i' = i + 1
    /\ pc' = IF i + 1 < VIEWPORT_COUNT THEN "InitViewport" ELSE "SetGizmoSize"
    /\ UNCHANGED <<mouse, shouldClose, windowOpen, mouseOffset, mouseScale,
                   crateTexture, crateModel, crateTransform, boundTarget,
                   camera3D, calls, frameStart, drawn, seen, blit, released,
                   staleUse, probe>>

\* SetGizmoSize(4.0f); the main loop follows
AtSetGizmoSize ==
    /\ pc = "SetGizmoSize"
    /\ pc' = "WindowShouldClose"
    /\ UNCHANGED <<i, mouse, shouldClose, windowOpen, mouseOffset, mouseScale,
                   crateTexture, crateModel, crateTransform, view,
                   boundTarget, camera3D, calls, frameStart, drawn, seen,
                   blit, released, staleUse, probe>>

----------------------------------------------------------------------------
(* Main loop *)

\* while (!WindowShouldClose()): leave the loop on a close request
AtWindowShouldClose ==
    /\ pc = "WindowShouldClose"
    /\ IF shouldClose
       THEN pc' = "UnloadRenderTexture" /\ i' = 0
       ELSE pc' = "BeginDrawing" /\ i' = i
    /\ UNCHANGED <<mouse, shouldClose, windowOpen, mouseOffset, mouseScale,
                   crateTexture, crateModel, crateTransform, view,
                   boundTarget, camera3D, calls, frameStart, drawn, seen,
                   blit, released, staleUse, probe>>

\* BeginDrawing(): a new frame starts
AtBeginDrawing ==
    /\ pc = "BeginDrawing"
    /\ calls' = << <<"BeginDrawing", -1>> >>
    /\ frameStart' = crateTransform
    /\ drawn' = Nothing
    /\ seen' = Nothing
    /\ blit' = Nothing
    /\ pc' = "ClearBackground"
    /\ UNCHANGED <<i, mouse, shouldClose, windowOpen, mouseOffset,
                   mouseScale, crateTexture, crateModel, crateTransform,
                   view, boundTarget, camera3D, released, staleUse, probe>>

\* ClearBackground of the window; then the viewport loop starts at i = 0
AtClearBackground ==
    /\ pc = "ClearBackground"
    /\ Call("ClearBackground", -1)
    /\ i' = 0
    /\ pc' = "BeginTextureMode"
    /\ UNCHANGED <<mouse, shouldClose, windowOpen, mouseOffset, mouseScale,
                   crateTexture, crateModel, crateTransform, view,
                   boundTarget, camera3D, frameStart, drawn, seen, blit,
                   released, staleUse, probe>>

\* BeginTextureMode(view[i].rt)
AtBeginTextureMode ==
    /\ pc = "BeginTextureMode"
    /\ i < VIEWPORT_COUNT
    /\ boundTarget' = view[i].rt.id
    /\ staleUse' = (staleUse \/ Stale(i))
    /\ Call("BeginTextureMode", i)
    /\ pc' = "ClearTarget"
    /\ UNCHANGED <<i, mouse, shouldClose, windowOpen, mouseOffset,
                   mouseScale, crateTexture, crateModel, crateTransform,
                   view, camera3D, frameStart, drawn, seen, blit, released,
                   probe>>

\* ClearBackground(view[i].clearColor) on the bound target
AtClearTarget ==
    /\ pc = "ClearTarget"
    /\ Call("ClearBackground", i)
    /\ pc' = "BeginMode3D"
    /\ UNCHANGED <<i, mouse, shouldClose, windowOpen, mouseOffset,
                   mouseScale, crateTexture, crateModel, crateTransform,
                   view, boundTarget, camera3D, frameStart, drawn, seen,
                   blit, released, staleUse, probe>>

\* BeginMode3D(view[i].camera)
AtBeginMode3D ==
    /\ pc = "BeginMode3D"
    /\ camera3D' = view[i].camera
    /\ Call("BeginMode3D", i)
    /\ pc' = "GizmoToMatrix"
    /\ UNCHANGED <<i, mouse, shouldClose, windowOpen, mouseOffset,
                   mouseScale, crateTexture, crateModel, crateTransform,
                   view, boundTarget, frameStart, drawn, seen, blit,
                   released, staleUse, probe>>

\* variant: the matrix is computed for the first viewport of a frame only
AtGizmoToMatrix_FirstOnly ==
    /\ pc = "GizmoToMatrix"
    /\ crateModel' = IF i = 0
                     THEN [crateModel EXCEPT !.transform = GizmoToMatrix(crateTransform)]
                     ELSE crateModel
    /\ pc' = "DrawModel"
    /\ UNCHANGED <<i, mouse, shouldClose, windowOpen, mouseOffset,
                   mouseScale, crateTexture, crateTransform, view,
                   boundTarget, camera3D, calls, frameStart, drawn, seen,
                   blit, released, staleUse, probe>>

\* crateModel.transform = GizmoToMatrix(crateTransform)
AtGizmoToMatrix ==
    /\ pc = "GizmoToMatrix"
    /\ crateModel' = [crateModel EXCEPT !.transform = GizmoToMatrix(crateTransform)]
    /\ pc' = "DrawModel"
    /\ UNCHANGED <<i, mouse, shouldClose, windowOpen, mouseOffset,
                   mouseScale, crateTexture, crateTransform, view,
                   boundTarget, camera3D, calls, frameStart, drawn, seen,
                   blit, released, staleUse, probe>>

\* DrawModel(crateModel, ...) into the bound target under the active camera
AtDrawModel ==
    /\ pc = "DrawModel"
    /\ drawn' = [drawn EXCEPT ![i] = crateModel.transform]
    /\ Call("DrawModel", i)
    /\ pc' = "CheckCollisionPointRec"
    /\ UNCHANGED <<i, mouse, shouldClose, windowOpen, mouseOffset,
                   mouseScale, crateTexture, crateModel, crateTransform,
                   view, boundTarget, camera3D, frameStart, seen, blit,
                   released, staleUse, probe>>

\* variant: the gizmo is drawn in every viewport
AtCheckCollisionPointRec_Always ==
    /\ pc = "CheckCollisionPointRec"
    /\ pc' = "SetMouseOffset"
    /\ UNCHANGED <<i, mouse, shouldClose, windowOpen, mouseOffset,
                   mouseScale, crateTexture, crateModel, crateTransform,
                   view, boundTarget, camera3D, calls, frameStart, drawn,
                   seen, blit, released, staleUse, probe>>

\* variant: the test is inverted
AtCheckCollisionPointRec_Negated ==
    /\ pc = "CheckCollisionPointRec"
    /\ pc' = IF ~CheckCollisionPointRec(GetMousePosition, view[i].area)
             THEN "SetMouseOffset" ELSE "EndMode3D"
    /\ UNCHANGED <<i, mouse, shouldClose, windowOpen, mouseOffset,
                   mouseScale, crateTexture, crateModel, crateTransform,
                   view, boundTarget, camera3D, calls, frameStart, drawn,
                   seen, blit, released, staleUse, probe>>

\* if (CheckCollisionPointRec(GetMousePosition(), view[i].area))
AtCheckCollisionPointRec ==
    /\ pc = "CheckCollisionPointRec"
    /\ pc' = IF CheckCollisionPointRec(GetMousePosition, view[i].area)
             THEN "SetMouseOffset" ELSE "EndMode3D"
    /\ UNCHANGED <<i, mouse, shouldClose, windowOpen, mouseOffset,
                   mouseScale, crateTexture, crateModel, crateTransform,
                   view, boundTarget, camera3D, calls, frameStart, drawn,
                   seen, blit, released, staleUse, probe>>

\* variant: the offset is the origin itself, not its negation
AtSetMouseOffset_Unnegated ==
    /\ pc = "SetMouseOffset"
    /\ mouseOffset' = <<view[i].area.x, view[i].area.y>>
    /\ Call("SetMouseOffset", i)
    /\ pc' = "SetMouseScale"
    /\ UNCHANGED <<i, mouse, shouldClose, windowOpen, mouseScale,
                   crateTexture, crateModel, crateTransform, view,
                   boundTarget, camera3D, frameStart, drawn, seen, blit,
                   released, staleUse, probe>>

\* SetMouseOffset(-(int)view[i].area.x, -(int)view[i].area.y)
AtSetMouseOffset ==
    /\ pc = "SetMouseOffset"
    /\ mouseOffset' = <<-view[i].area.x, -view[i].area.y>>
    /\ Call("SetMouseOffset", i)
    /\ pc' = "SetMouseScale"
    /\ UNCHANGED <<i, mouse, shouldClose, windowOpen, mouseScale,
                   crateTexture, crateModel, crateTransform, view,
                   boundTarget, camera3D, frameStart, drawn, seen, blit,
                   released, staleUse, probe>>

\* SetMouseScale(rt.texture.width / area.width, rt.texture.height / area.height)
AtSetMouseScale ==
    /\ pc = "SetMouseScale"
    /\ mouseScale' = <<FloatDiv(view[i].rt.texture.width, view[i].area.width),
                       FloatDiv(view[i].rt.texture.height, view[i].area.height)>>
    /\ Call("SetMouseScale", i)
    /\ pc' = "DrawGizmo3D"
    /\ UNCHANGED <<i, mouse, shouldClose, windowOpen, mouseOffset,
                   crateTexture, crateModel, crateTransform, view,
                   boundTarget, camera3D, frameStart, drawn, seen, blit,
                   released, staleUse, probe>>

\* DrawGizmo3D(GIZMO_TRANSLATE, &crateTransform)
AtDrawGizmo3D ==
    /\ pc = "DrawGizmo3D"
    /\ seen' = [seen EXCEPT ![i] = GizmoPointer]
    /\ crateTransform' \in GizmoResults(crateTransform)
    /\ Call("DrawGizmo3D", i)
    /\ pc' = "ResetMouseOffset"
    /\ UNCHANGED <<i, mouse, shouldClose, windowOpen, mouseOffset,
                   mouseScale, crateTexture, crateModel, view, boundTarget,
                   camera3D, frameStart, drawn, blit, released, staleUse,
                   probe>>

\* variant: the offset is not put back after the gizmo call
AtResetMouseOffset_Skipped ==
    /\ pc = "ResetMouseOffset"
    /\ pc' = "ResetMouseScale"
    /\ UNCHANGED <<i, mouse, shouldClose, windowOpen, mouseOffset,
                   mouseScale, crateTexture, crateModel, crateTransform,
                   view, boundTarget, camera3D, calls, frameStart, drawn,
                   seen, blit, released, staleUse, probe>>

\* SetMouseOffset(0, 0)
AtResetMouseOffset ==
    /\ pc = "ResetMouseOffset"
    /\ mouseOffset' = <<0, 0>>
    /\ Call("SetMouseOffset", -1)
    /\ pc' = "ResetMouseScale"
    /\ UNCHANGED <<i, mouse, shouldClose, windowOpen, mouseScale,
                   crateTexture, crateModel, crateTransform, view,
                   boundTarget, camera3D, frameStart, drawn, seen, blit,
                   released, staleUse, probe>>

\* SetMouseScale(1.0f, 1.0f)
AtResetMouseScale ==
    /\ pc = "ResetMouseScale"
    /\ mouseScale' = <<One, One>>
    /\ Call("SetMouseScale", -1)
    /\ pc' = "EndMode3D"
    /\ UNCHANGED <<i, mouse, shouldClose, windowOpen, mouseOffset,
                   crateTexture, crateModel, crateTransform, view,
                   boundTarget, camera3D, frameStart, drawn, seen, blit,
                   released, staleUse, probe>>

\* EndMode3D()
AtEndMode3D ==
    /\ pc = "EndMode3D"
    /\ camera3D' = NoCamera
    /\ Call("EndMode3D", i)
    /\ pc' = "EndTextureMode"
    /\ UNCHANGED <<i, mouse, shouldClose, windowOpen, mouseOffset,
                   mouseScale, crateTexture, crateModel, crateTransform,
                   view, boundTarget, frameStart, drawn, seen, blit,
                   released, staleUse, probe>>

\* variant: a viewport without the pointer is not drawn to the window
AtEndTextureMode_SkipInactive ==
    /\ pc = "EndTextureMode"
    /\ boundTarget' = Window
    /\ Call("EndTextureMode", i)
    /\ IF seen[i] # << >>
       THEN pc' = "DrawTextureRec" /\ i' = i
       ELSE /\ i' = i + 1
            /\ pc' = IF i + 1 < VIEWPORT_COUNT THEN "BeginTextureMode" ELSE "EndDrawing"
    /\ UNCHANGED <<mouse, shouldClose, windowOpen, mouseOffset, mouseScale,
                   crateTexture, crateModel, crateTransform, view, camera3D,
                   frameStart, drawn, seen, blit, released, staleUse, probe>>

\* EndTextureMode(): the window is the draw destination again
AtEndTextureMode ==
    /\ pc = "EndTextureMode"
    /\ boundTarget' = Window
    /\ Call("EndTextureMode", i)
    /\ pc' = "DrawTextureRec"
    /\ UNCHANGED <<i, mouse, shouldClose, windowOpen, mouseOffset,
                   mouseScale, crateTexture, crateModel, crateTransform,
                   view, camera3D, frameStart, drawn, seen, blit, released,
                   staleUse, probe>>

\* DrawTextureRec(view[i].rt.texture, source, position, WHITE), then ++i and
\* the test i < VIEWPORT_COUNT of the viewport loop
AtDrawTextureRec ==
    /\ pc = "DrawTextureRec"
    /\ blit' = [blit EXCEPT ![i] = <<boundTarget, SourceRec(i), Position(i)>>]
    /\ staleUse' = (staleUse \/ Stale(i))
    /\ Call("DrawTextureRec", i)
    /\ i' = i + 1
    /\ pc' = IF i + 1 < VIEWPORT_COUNT THEN "BeginTextureMode" ELSE "EndDrawing"
    /\ UNCHANGED <<mouse, shouldClose, windowOpen, mouseOffset, mouseScale,
                   crateTexture, crateModel, crateTransform, view,
                   boundTarget, camera3D, frameStart, drawn, seen, released,
                   probe>>

\* EndDrawing(): the frame is presented and the input events are polled, which
\* is the only place where the pointer position and the close request change
AtEndDrawing ==
    /\ pc = "EndDrawing"
    /\ Call("EndDrawing", -1)
    /\ mouse' \in PointerSamples
    /\ shouldClose' \in BOOLEAN
    /\ pc' = "WindowShouldClose"
    /\ UNCHANGED <<i, windowOpen, mouseOffset, mouseScale, crateTexture,
                   crateModel, crateTransform, view, boundTarget, camera3D,
                   frameStart, drawn, seen, blit, released, staleUse, probe>>

----------------------------------------------------------------------------
(* Cleanup *)

\* variant: the release loop stops one target early
AtUnloadRenderTexture_OffByOne ==
    /\ pc = "UnloadRenderTexture"
    /\ i < VIEWPORT_COUNT - 1
    /\ released' = Append(released, <<"rt", i>>)
    /\ i' = i + 1
    /\ pc' = IF i + 1 < VIEWPORT_COUNT - 1 THEN "UnloadRenderTexture" ELSE "UnloadTexture"
    /\ UNCHANGED <<mouse, shouldClose, windowOpen, mouseOffset, mouseScale,
                   crateTexture, crateModel, crateTransform, view,
                   boundTarget, camera3D, calls, frameStart, drawn, seen,
                   blit, staleUse, probe>>

\* for (i = 0; i < VIEWPORT_COUNT; ++i) UnloadRenderTexture(view[i].rt)
AtUnloadRenderTexture ==
    /\ pc = "UnloadRenderTexture"
    /\ i < VIEWPORT_COUNT
    /\ released' = Append(released, <<"rt", i>>)
    /\ i' = i + 1
    /\ pc' = IF i + 1 < VIEWPORT_COUNT THEN "UnloadRenderTexture" ELSE "UnloadTexture"
    /\ UNCHANGED <<mouse, shouldClose, windowOpen, mouseOffset, mouseScale,
                   crateTexture, crateModel, crateTransform, view,
                   boundTarget, camera3D, calls, frameStart, drawn, seen,
                   blit, staleUse, probe>>

\* UnloadTexture(crateTexture)
AtUnloadTexture ==
    /\ pc = "UnloadTexture"
    /\ released' = Append(released, <<"texture", 0>>)
    /\ pc' = "UnloadModel"
    /\ UNCHANGED <<i, mouse, shouldClose, windowOpen, mouseOffset,
                   mouseScale, crateTexture, crateModel, crateTransform,
                   view, boundTarget, camera3D, calls, frameStart, drawn,
                   seen, blit, staleUse, probe>>

\* UnloadModel(crateModel): frees the meshes, not the texture
AtUnloadModel ==
    /\ pc = "UnloadModel"
    /\ released' = Append(released, <<"model", 0>>)
    /\ pc' = "CloseWindow"
    /\ UNCHANGED <<i, mouse, shouldClose, windowOpen, mouseOffset,
                   mouseScale, crateTexture, crateModel, crateTransform,
                   view, boundTarget, camera3D, calls, frameStart, drawn,
                   seen, blit, staleUse, probe>>

\* CloseWindow(); return 0
AtCloseWindow ==
    /\ pc = "CloseWindow"
    /\ windowOpen' = FALSE
    /\ released' = Append(released, <<"window", 0>>)
    /\ pc' = "done"
    /\ UNCHANGED <<i, mouse, shouldClose, mouseOffset, mouseScale,
                   crateTexture, crateModel, crateTransform, view,
                   boundTarget, camera3D, calls, frameStart, drawn, seen,
                   blit, staleUse, probe>>

Next ==
    \/ AtInitWindow
    \/ AtLoadTexture
    \/ AtLoadModel
    \/ AtGizmoIdentity
    \/ AtInitViewport
    \/ AtSetGizmoSize
    \/ AtWindowShouldClose
    \/ AtBeginDrawing
    \/ AtClearBackground
    \/ AtBeginTextureMode
    \/ AtClearTarget
    \/ AtBeginMode3D
    \/ AtGizmoToMatrix
    \/ AtDrawModel
    \/ AtCheckCollisionPointRec
    \/ AtSetMouseOffset
    \/ AtSetMouseScale
    \/ AtDrawGizmo3D
    \/ AtResetMouseOffset
    \/ AtResetMouseScale
    \/ AtEndMode3D
    \/ AtEndTextureMode
    \/ AtDrawTextureRec
    \/ AtEndDrawing
    \/ AtUnloadRenderTexture
    \/ AtUnloadTexture
    \/ AtUnloadModel
    \/ AtCloseWindow

Spec == Init /\ [][Next]_vars

\* main() is sequential and every call returns: a step that can be taken is taken
FairSpec == Spec /\ WF_vars(Next)

----------------------------------------------------------------------------
(* Per-pixel checks of the hit test and of the compositing, on the state    *)
(* the program is in when initialization has completed with every load     *)
(* successful.  probe holds the window pixel under test and what the       *)
(* program's rectangles and DrawTextureRec arguments make of it.           *)

WindowPixels == (0 .. (SCREEN_WIDTH - 1)) \X (0 .. (SCREEN_HEIGHT - 1))

Abs(v) == IF v < 0 THEN -v ELSE v

\* DrawTextureRec draws to {position.x, position.y, |source.width|, |source.height|}
DestRec(source, position) ==
    [x |-> position[1], y |-> position[2],
     width |-> Abs(source.width), height |-> Abs(source.height)]

\* DrawTexturePro: the texel whose centre window pixel w samples; a negative
\* source height moves source.y to the other edge and runs the rows backwards
SampledTexel(source, position, w) ==
    LET dx == w[1] - position[1]
        dy == w[2] - position[2]
        yTop == IF source.height < 0 THEN source.y - source.height ELSE source.y
        sgn == IF source.height < 0 THEN -1 ELSE 1
    IN  << source.x + dx, (2 * yTop + sgn * (2 * dy + 1)) \div 2 >>

\* the viewports whose DrawTextureRec call covers window pixel w
Covering(w) ==
    { n \in Viewports :
        CheckCollisionPointRec(w, DestRec(SourceRec(n), Position(n))) }

PixelInit ==
    /\ pc = "WindowShouldClose"
    /\ i = VIEWPORT_COUNT
    /\ mouse = <<SCREEN_WIDTH \div 2, SCREEN_HEIGHT \div 2>>
    /\ shouldClose = FALSE
    /\ windowOpen = TRUE
    /\ mouseOffset = <<0, 0>>
    /\ mouseScale = <<One, One>>
    /\ crateTexture = LoadTexture(TRUE)
    /\ crateModel = [LoadModel(TRUE) EXCEPT !.texture = LoadTexture(TRUE).id]
    /\ crateTransform = GizmoIdentity
    /\ view = [n \in Viewports |-> MakeViewport(n, TRUE)]
    /\ boundTarget = Window
    /\ camera3D = NoCamera
    /\ calls = << >>
    /\ frameStart = GizmoIdentity
    /\ drawn = Nothing
    /\ seen = Nothing
    /\ blit = Nothing
    /\ released = << >>
    /\ staleUse = FALSE
    /\ \E w \in WindowPixels : probe = [kind |-> "pixel", w |-> w]

\* the hit test of the viewport loop, applied to the pixel for every viewport
ProbeHit ==
    /\ probe.kind = "pixel"
    /\ probe' = [kind |-> "hit", w |-> probe.w,
                 hits |-> { n \in Viewports :
                              CheckCollisionPointRec(probe.w, view[n].area) }]
    /\ UNCHANGED <<pc, i, mouse, shouldClose, windowOpen, mouseOffset,
                   mouseScale, crateTexture, crateModel, crateTransform, view,
                   boundTarget, camera3D, calls, frameStart, drawn, seen,
                   blit, released, staleUse>>

\* the DrawTextureRec calls of the viewport loop, applied to the pixel
ProbeTexel ==
    /\ probe.kind = "pixel"
    /\ probe' = [kind |-> "texel", w |-> probe.w,
                 texel |-> [n \in Covering(probe.w) |->
                              SampledTexel(SourceRec(n), Position(n), probe.w)]]
    /\ UNCHANGED <<pc, i, mouse, shouldClose, windowOpen, mouseOffset,
                   mouseScale, crateTexture, crateModel, crateTransform, view,
                   boundTarget, camera3D, calls, frameStart, drawn, seen,
                   blit, released, staleUse>>

PixelNext == ProbeHit \/ ProbeTexel

PixelSpec == PixelInit /\ [][PixelNext]_vars

----------------------------------------------------------------------------
(* Vocabulary of the properties *)

InitPoints ==
    {"InitWindow", "LoadTexture", "LoadModel", "GizmoIdentity",
     "InitViewport", "SetGizmoSize"}

\* the positions of main() inside a frame, from the window clear on; the
\* pointer does not move while pc is at one of them
FramePoints ==
    {"ClearBackground", "BeginTextureMode", "ClearTarget", "BeginMode3D",
     "GizmoToMatrix", "DrawModel", "CheckCollisionPointRec", "SetMouseOffset",
     "SetMouseScale", "DrawGizmo3D", "ResetMouseOffset", "ResetMouseScale",
     "EndMode3D", "EndTextureMode", "DrawTextureRec", "EndDrawing"}

CleanupPoints ==
    {"UnloadRenderTexture", "UnloadTexture", "UnloadModel", "CloseWindow",
     "done"}

Identity == mouseOffset = <<0, 0>> /\ mouseScale = <<One, One>>

\* the frame's calls of one name
CallsOf(name) == { k \in DOMAIN calls : calls[k][1] = name }

\* the viewports whose gizmo call was made in this frame
Manipulated == { n \in Viewports : <<"DrawGizmo3D", n>> \in { calls[k] : k \in DOMAIN calls } }

\* the viewports whose rectangle contains the raw pointer position
Containing == { n \in Viewports : CheckCollisionPointRec(mouse, view[n].area) }

\* the frame has been presented
Presented == calls # << >> /\ calls[Len(calls)] = <<"EndDrawing", -1>>

----------------------------------------------------------------------------
\* C1: whenever a viewport iteration starts (pc at BeginTextureMode) and when
\* the frame is about to be presented (pc at EndDrawing), the mouse offset is
\* (0,0) and the mouse scale is (1,1): a remap installed for viewport i is
\* gone before viewport i+1 is processed.
C1_RemapRestored ==
    pc \in {"BeginTextureMode", "EndDrawing"} => Identity

\* a viewport iteration starts right after the one that installed a remap
C1_Witness ==
    /\ pc = "BeginTextureMode"
    /\ i = 2
    /\ CallsOf("SetMouseOffset") # {}
    /\ 1 \in Manipulated

\* C2: in every frame DrawGizmo3D is called for at most one viewport, that
\* viewport contains the pointer, and no step other than a gizmo call
\* changes crateTransform.
C2_SingleWriter ==
    /\ [](Cardinality(CallsOf("DrawGizmo3D")) <= 1)
    /\ [](pc \in FramePoints => Manipulated \subseteq Containing)
    /\ [][crateTransform' # crateTransform
            => pc = "DrawGizmo3D" /\ i \in Containing]_vars

\* a frame is complete, one gizmo call was made and it moved the crate
C2_Witness ==
    /\ pc = "EndDrawing"
    /\ Cardinality(CallsOf("DrawGizmo3D")) = 1
    /\ crateTransform # frameStart

\* C3: after initialization the four rectangles are {0,0,480,270},
\* {480,0,480,270}, {0,270,480,270}, {480,270,480,270}, each is half the
\* window wide and high, and every window pixel lies in exactly one of them.
C3_Tiling ==
    pc \notin InitPoints =>
        /\ view[0].area = [x |-> 0, y |-> 0, width |-> 480, height |-> 270]
        /\ view[1].area = [x |-> 480, y |-> 0, width |-> 480, height |-> 270]
        /\ view[2].area = [x |-> 0, y |-> 270, width |-> 480, height |-> 270]
        /\ view[3].area = [x |-> 480, y |-> 270, width |-> 480, height |-> 270]
        /\ \A n \in Viewports :
              /\ 2 * view[n].area.width = SCREEN_WIDTH
              /\ 2 * view[n].area.height = SCREEN_HEIGHT
        /\ probe # << >> /\ probe.kind = "hit" => Cardinality(probe.hits) = 1

\* the last pixel of the window has been tested and lies in viewport 3
C3_Witness ==
    /\ probe # << >>
    /\ probe.kind = "hit"
    /\ probe.w = <<SCREEN_WIDTH - 1, SCREEN_HEIGHT - 1>>
    /\ probe.hits = {3}

\* C4: the position a gizmo call reads is (p - rect.origin) * (target size /
\* rect size) for the raw pointer position p; with a 480x270 target that is
\* p - rect.origin, inside [0,480) x [0,270); the pointer (500,300) selects
\* viewport 3 only and is read there as (20,30).
C4_Remap ==
    pc \in FramePoints =>
        \A n \in Viewports :
            seen[n] # << >> =>
                LET a == view[n].area
                    t == view[n].rt.texture
                IN  /\ CheckCollisionPointRec(mouse, a)
                    /\ seen[n] = << ((mouse[1] - a.x) * t.width) \div a.width,
                                    ((mouse[2] - a.y) * t.height) \div a.height >>
                    /\ t.width = 480 /\ t.height = 270 =>
                          /\ seen[n] = <<mouse[1] - a.x, mouse[2] - a.y>>
                          /\ seen[n][1] \in 0 .. 479
                          /\ seen[n][2] \in 0 .. 269
                    /\ mouse = <<500, 300>> =>
                          /\ n = 3
                          /\ t.width = 480 /\ t.height = 270 => seen[n] = <<20, 30>>

\* the pointer is at (500,300) and the gizmo of viewport 3 read (20,30)
C4_Witness ==
    /\ pc \in FramePoints
    /\ mouse = <<500, 300>>
    /\ seen[3] = <<20, 30>>

\* the rendering and compositing calls one frame must make, in order
ViewportCalls(n) ==
    << <<"BeginTextureMode", n>>, <<"ClearBackground", n>>,
       <<"BeginMode3D", n>>, <<"DrawModel", n>>, <<"EndMode3D", n>>,
       <<"EndTextureMode", n>>, <<"DrawTextureRec", n>> >>

ExpectedFrame ==
    << <<"BeginDrawing", -1>>, <<"ClearBackground", -1>> >>
    \o ViewportCalls(0) \o ViewportCalls(1) \o ViewportCalls(2)
    \o ViewportCalls(3) \o << <<"EndDrawing", -1>> >>

IsInput(c) == c[1] \in {"SetMouseOffset", "SetMouseScale", "DrawGizmo3D"}

\* the frame's calls without those of the input remapping and the gizmo
RenderCalls == SelectSeq(calls, LAMBDA c : ~IsInput(c))

IsPrefix(a, b) == Len(a) <= Len(b) /\ a = SubSeq(b, 1, Len(a))

\* C5: the rendering calls of a frame are always a prefix of: for i = 0..3,
\* bind target i, clear it, enter camera i, draw the model, leave the camera,
\* unbind the target, draw texture i to the window; a presented frame has made
\* all of them.  The model is drawn into target i under camera i, and texture
\* i is drawn to the window at the origin of rectangle i.
C5_AllViewports ==
    /\ IsPrefix(RenderCalls, ExpectedFrame)
    /\ Presented => RenderCalls = ExpectedFrame
    /\ pc = "DrawModel" =>
          boundTarget = view[i].rt.id /\ camera3D = view[i].camera
    /\ pc = "DrawTextureRec" => boundTarget = Window /\ camera3D = NoCamera
    /\ \A n \in Viewports :
          blit[n] # << >> =>
              blit[n][1] = Window /\ blit[n][3] = <<view[n].area.x, view[n].area.y>>

\* a frame was presented in which viewport 1 was the active one
C5_Witness ==
    /\ Presented
    /\ Manipulated = {1}
    /\ \A n \in Viewports : blit[n] # << >> /\ drawn[n] # << >>

\* C6: while a frame is processed with the pointer in none of the four
\* rectangles, no SetMouseOffset, SetMouseScale or DrawGizmo3D call is made,
\* the remap stays the identity and crateTransform keeps the value it had
\* when the frame began, up to the end of the frame.
C6_PointerOutside ==
    pc \in FramePoints /\ Containing = {} =>
        /\ \A k \in DOMAIN calls : ~IsInput(calls[k])
        /\ Identity
        /\ crateTransform = frameStart

\* the four viewports are done in a frame whose pointer is off the window,
\* after an earlier frame moved the crate
C6_Witness ==
    /\ pc = "EndDrawing"
    /\ Containing = {}
    /\ mouse = <<960, 539>>
    /\ crateTransform # GizmoIdentity

ReleaseOrder ==
    << <<"rt", 0>>, <<"rt", 1>>, <<"rt", 2>>, <<"rt", 3>>,
       <<"texture", 0>>, <<"model", 0>>, <<"window", 0>> >>

\* C7: once a close request is signalled the program reaches its end; the
\* release calls are a prefix of: render targets 0..3, texture, model, window,
\* so each is released at most once and the window last; at the end all of
\* them have been released; once a release was made no frame step follows;
\* and no render target is bound or sampled after its release.
C7_Shutdown ==
    /\ [](IsPrefix(released, ReleaseOrder))
    /\ [](pc = "done" => released = ReleaseOrder /\ ~windowOpen)
    /\ [](released # << >> => pc \in CleanupPoints)
    /\ [](~staleUse)
    /\ (shouldClose ~> pc = "done")

\* the program ended after rendering at least one frame
C7_Witness ==
    /\ pc = "done"
    /\ Len(released) = 7
    /\ Presented

\* some load of the initialization failed
LoadFailed ==
    \/ pc \notin {"InitWindow", "LoadTexture"} /\ crateTexture.id = 0
    \/ pc \notin {"InitWindow", "LoadTexture", "LoadModel"}
         /\ crateModel.mesh = "default"
    \/ \E n \in Viewports :
          /\ pc \notin {"InitWindow", "LoadTexture", "LoadModel", "GizmoIdentity"}
          /\ pc = "InitViewport" => n < i
          /\ view[n].rt.id = 0

C9_VerticalFlip ==
    probe # << >> /\ probe.kind = "texel" =>
        /\ DOMAIN probe.texel =
              { n \in Viewports : CheckCollisionPointRec(probe.w, view[n].area) }
        /\ \A n \in DOMAIN probe.texel :
              LET x == probe.texel[n][1]
                  y == probe.texel[n][2]
              IN  /\ x \in 0 .. 479
                  /\ y \in 0 .. 269
                  /\ probe.w = <<view[n].area.x + x,
                                 view[n].area.y + (270 - 1 - y)>>
                  /\ Abs(SourceRec(n).width) = view[n].area.width
                  /\ Abs(SourceRec(n).height) = view[n].area.height
                  /\ SourceRec(n).height < 0

\* texel (20, 239) of viewport 3 is shown at window pixel (500, 300)
C9_Witness ==
    /\ probe # << >>
    /\ probe.kind = "texel"
    /\ probe.w = <<500, 300>>
    /\ DOMAIN probe.texel = {3}
    /\ probe.texel[3] = <<20, 239>>

\* C10: within a frame, the matrix a viewport drew the model with is the
\* matrix of the transform the frame began with if no gizmo call preceded
\* its DrawModel (viewports up to and including the active one), and the
\* matrix of the transform the gizmo left (viewports after the active one).
\* When the four viewports are done, they all drew the same matrix only if
\* the transform was not changed or the active viewport is 3.
C10_ReadWriteOrder ==
    pc \in FramePoints =>
        /\ \A n \in Viewports :
              drawn[n] # << >> =>
                  drawn[n] = GizmoToMatrix(IF \E a \in Manipulated : a < n
                                           THEN crateTransform ELSE frameStart)
        /\ pc = "EndDrawing" /\ (\A n, m \in Viewports : drawn[n] = drawn[m]) =>
              crateTransform = frameStart \/ Manipulated = {3}

\* viewport 1 was active and moved the crate: viewports 1 and 2 differ
C10_Witness ==
    /\ pc = "EndDrawing"
    /\ Manipulated = {1}
    /\ crateTransform # frameStart
    /\ drawn[0] = drawn[1]
    /\ drawn[1] # drawn[2]
    /\ drawn[2] = drawn[3]

====
